---- MODULE Spec2Model ----
(***************************************************************************)
(* Model of uvQuery.cpp: the sweep-line point location (sweep) followed by *)
(* the nearest-border-edge fallback (handleMissing).                       *)
(*                                                                         *)
(* Vectors are sequences; the source's 0-based position i of vector v is   *)
(* At(v, i).  Coordinates are integers (exact arithmetic; the quotient of  *)
(* closestBruteForceEdge is kept as a fraction).  A read outside a vector  *)
(* is undefined behaviour: the value read is any member of a small set of  *)
(* representatives, or the program aborts (pc = "crashed"); every such     *)
(* site is recorded in ub.                                                 *)
(***************************************************************************)
EXTENDS Integers, Sequences, FiniteSets, TLC

\* Bounds of the model
MaxQ == 2
MaxOverrun == 1

At(s, i) == s[i + 1]
Idx(s) == 0 .. (Len(s) - 1)
SeqRange(s) == { s[k] : k \in 1 .. Len(s) }

min(a, b) == IF b < a THEN b ELSE a
max(a, b) == IF a < b THEN b ELSE a

\* uv_t: a pair <<u, v>>; p[1] is the source's p[0], p[2] its p[1].
\* The query points: a vertex of every mesh, a point strictly inside a
\* triangle of MeshOne and MeshTwo (on the shared edge of MeshSquare, outside
\* MeshLoose), a point below or on the lower border, and a point to the right
\* of MeshOne, MeshSquare and MeshLoose.
Points == { <<0, 0>>, <<1, 1>>, <<1, 0>>, <<3, 1>> }

(***************************************************************************)
(* Inputs.  The triangulations are fixed small meshes; the query lists are *)
(* every list of 1..MaxQ of the query points.                              *)
(***************************************************************************)
\* one triangle, (1,1) strictly inside
MeshOne ==
    [ uvs |-> << <<0, 0>>, <<2, 1>>, <<1, 2>> >>,
      tris |-> <<0, 1, 2>> ]
\* a square split along the diagonal (0,0)-(2,2): (1,1) lies on the shared edge
MeshSquare ==
    [ uvs |-> << <<0, 0>>, <<2, 0>>, <<2, 2>>, <<0, 2>> >>,
      tris |-> <<0, 1, 2, 0, 2, 3>> ]
\* one triangle and a vertex no triangle uses, to the right of it
MeshLoose ==
    [ uvs |-> << <<0, 0>>, <<1, 0>>, <<0, 1>>, <<2, 1>> >>,
      tris |-> <<0, 1, 2>> ]
\* two triangles that meet in one vertex, with different x-ranges; (1,1) is
\* strictly inside the left one, which is triangle 1
MeshTwo ==
    [ uvs |-> << <<0, 0>>, <<3, 0>>, <<2, 1>>, <<1, 2>>, <<3, 2>> >>,
      tris |-> <<2, 1, 4, 0, 2, 3>> ]
Meshes == { MeshOne, MeshSquare, MeshLoose, MeshTwo }

\* the query lists for a mesh: 1..MaxQ points; for the single triangle also
\* the lists with as many points as the mesh has vertices, and with one more;
\* for the square the lists with as many points as it has vertices
QueryLens(mesh) ==
    (1 .. MaxQ) \cup
    (IF mesh = MeshOne THEN {Len(mesh.uvs), Len(mesh.uvs) + 1}
     ELSE IF mesh = MeshSquare THEN {Len(mesh.uvs)} ELSE {})
QueryLists(mesh) == UNION { [1 .. n -> Points] : n \in QueryLens(mesh) }

\* values an out-of-range read of a double can produce (representatives:
\* below every coordinate, among them, above every coordinate)
GarbageReals == { -1, 1, 9 }

VARIABLES
    qPoints, uvs, tris,                 \* sweep's inputs
    borders, borderToTri,               \* handleMissing's inputs
    xmns, xmxs, ymns, ymxs,             \* bounding boxes
    qpx, qpSIdxs, mxSIdxs, mnSIdxs,     \* sort keys and permutations
    qpSIdx, mxSIdx, mnSIdx,             \* cursor positions
    qpIdx, qp, mx, mn,                  \* cursor values
    out, missing, barys,                \* outputs
    skip, activeTris, atSet,            \* active set
    pc,                                 \* "sweep", "done", "resolved", "crashed"
    hits,                               \* <<i, t>>: a Test hit wrote out[i] = t
    tested,                             \* query positions a Test action has read
    ub,                                 \* undefined-behaviour sites executed
    run, first                          \* second run on the same inputs

inputs == <<qPoints, uvs, tris>>
hmInputs == <<borders, borderToTri>>
boxes == <<xmns, xmxs, ymns, ymxs>>
perms == <<qpx, qpSIdxs, mxSIdxs, mnSIdxs>>
cursors == <<qpSIdx, mxSIdx, mnSIdx, qpIdx, qp, mx, mn>>
outputs == <<out, missing, barys>>
active == <<skip, activeTris, atSet>>
ghost == <<hits, tested, ub, run, first>>
vars == <<inputs, hmInputs, boxes, perms, cursors, outputs, active, pc, ghost>>

NumTris == Len(tris) \div 3

(***************************************************************************)
(* argsort: std::stable_sort of the positions 0..n-1 by key, as a stable   *)
(* insertion sort with the source's comparator v[i1] < v[i2].              *)
(***************************************************************************)
\* a slip in the comparator: v[i1] <= v[i2], which puts a position before
\* the earlier positions of equal key
RECURSIVE InsertSortedTies(_, _, _)
InsertSortedTies(v, s, i) ==
    IF s = << >> THEN <<i>>
    ELSE IF At(v, i) <= At(v, Head(s)) THEN <<i>> \o s
    ELSE <<Head(s)>> \o InsertSortedTies(v, Tail(s), i)

RECURSIVE InsertSorted(_, _, _)
InsertSorted(v, s, i) ==
    IF s = << >> THEN <<i>>
    ELSE IF At(v, i) < At(v, Head(s)) THEN <<i>> \o s
    ELSE <<Head(s)>> \o InsertSorted(v, Tail(s), i)

RECURSIVE ArgsortUpTo(_, _)
ArgsortUpTo(v, n) ==
    IF n = 0 THEN << >> ELSE InsertSorted(v, ArgsortUpTo(v, n - 1), n - 1)

argsort(v) == ArgsortUpTo(v, Len(v))

\* vertex k (0..2) of triangle t
TriVert(u, t3, t, k) == At(u, At(t3, 3 * t + k))

(***************************************************************************)
(* pointInTri (uvMath.h): the point lies in the closed triangle, whatever  *)
(* the triangle's orientation.                                             *)
(***************************************************************************)
Cross(a, b, p) == (b[1] - a[1]) * (p[2] - a[2]) - (b[2] - a[2]) * (p[1] - a[1])

pointInTri(p, a, b, c) ==
    LET d1 == Cross(a, b, p)
        d2 == Cross(b, c, p)
        d3 == Cross(c, a, p)
    IN  ~ ( (d1 < 0 \/ d2 < 0 \/ d3 < 0) /\ (d1 > 0 \/ d2 > 0 \/ d3 > 0) )

(***************************************************************************)
(* The border of a mesh, as the caller supplies it: the directed edges of  *)
(* each triangle that no other triangle shares, each with its triangle.    *)
(***************************************************************************)
TriEdges(t3, t) ==
    { <<At(t3, 3 * t + k), At(t3, 3 * t + ((k + 1) % 3))>> : k \in 0 .. 2 }

IsBorderEdge(t3, t, e) ==
    \A s \in 0 .. (Len(t3) \div 3) - 1 :
        s # t => (e \notin TriEdges(t3, s) /\ <<e[2], e[1]>> \notin TriEdges(t3, s))

RECURSIVE BorderFrom(_, _)
BorderFrom(t3, n) ==
    IF n = 0 THEN << >>
    ELSE LET t == (n - 1) \div 3
             k == (n - 1) % 3
             e == <<At(t3, 3 * t + k), At(t3, 3 * t + ((k + 1) % 3))>>
         IN  IF IsBorderEdge(t3, t, e)
             THEN Append(BorderFrom(t3, n - 1), <<e, t>>)
             ELSE BorderFrom(t3, n - 1)

\* the border lists handleMissing is called with: the mesh's border, the
\* same preceded by a zero-length edge, and no border at all
BorderConfigs(t3) ==
    LET full == BorderFrom(t3, Len(t3))
        edges == [k \in 1 .. Len(full) |-> full[k][1]]
        owner == [k \in 1 .. Len(full) |-> full[k][2]]
    IN  { [borders |-> edges, borderToTri |-> owner],
          [borders |-> << <<0, 0>> >> \o edges, borderToTri |-> <<0>> \o owner],
          [borders |-> << >>, borderToTri |-> << >>] }

(***************************************************************************)
(* sweep, lines 49-86: the state on entry to the main loop.                *)
(***************************************************************************)
SweepEntry(q, u, t3) ==
    LET numTris == Len(t3) \div 3
        bxmns == [i \in 1 .. numTris |->
                    min(TriVert(u, t3, i - 1, 0)[1],
                        min(TriVert(u, t3, i - 1, 1)[1], TriVert(u, t3, i - 1, 2)[1]))]
        bymns == [i \in 1 .. numTris |->
                    min(TriVert(u, t3, i - 1, 0)[2],
                        min(TriVert(u, t3, i - 1, 1)[2], TriVert(u, t3, i - 1, 2)[2]))]
        bxmxs == [i \in 1 .. numTris |->
                    max(TriVert(u, t3, i - 1, 0)[1],
                        max(TriVert(u, t3, i - 1, 1)[1], TriVert(u, t3, i - 1, 2)[1]))]
        bymxs == [i \in 1 .. numTris |->
                    max(TriVert(u, t3, i - 1, 0)[2],
                        max(TriVert(u, t3, i - 1, 1)[2], TriVert(u, t3, i - 1, 2)[2]))]
        keys == [k \in 1 .. Len(u) |-> u[k][1]]
        qpS == argsort(keys)
        mxS == argsort(bxmxs)
        mnS == argsort(bxmns)
        qp0 == At(keys, At(qpS, 0))
    IN  [ xmns |-> bxmns, ymns |-> bymns, xmxs |-> bxmxs, ymxs |-> bymxs,
          qpx |-> keys, qpSIdxs |-> qpS, mxSIdxs |-> mxS, mnSIdxs |-> mnS,
          qpSIdx |-> 0, mxSIdx |-> 0, mnSIdx |-> 0,
          qpIdx |-> At(qpS, 0),
          qp |-> qp0,
          mx |-> At(bxmxs, At(mxS, 0)),
          mn |-> At(bxmns, At(mnS, 0)),
          out |-> [k \in 1 .. Len(q) |-> 0],
          missing |-> [k \in 1 .. Len(q) |-> 0],
          skip |-> [i \in 1 .. numTris |-> qp0 > bxmxs[i]],
          activeTris |-> [i \in 1 .. numTris |-> FALSE],
          atSet |-> << >> ]

Init ==
    \E mesh \in Meshes :
      \E q \in QueryLists(mesh) :
        LET e == SweepEntry(q, mesh.uvs, mesh.tris)
        IN  /\ qPoints = q /\ uvs = mesh.uvs /\ tris = mesh.tris
            /\ borders = << >> /\ borderToTri = << >>
            /\ xmns = e.xmns /\ xmxs = e.xmxs /\ ymns = e.ymns /\ ymxs = e.ymxs
            /\ qpx = e.qpx /\ qpSIdxs = e.qpSIdxs
            /\ mxSIdxs = e.mxSIdxs /\ mnSIdxs = e.mnSIdxs
            /\ qpSIdx = e.qpSIdx /\ mxSIdx = e.mxSIdx /\ mnSIdx = e.mnSIdx
            /\ qpIdx = e.qpIdx /\ qp = e.qp /\ mx = e.mx /\ mn = e.mn
            /\ out = e.out /\ missing = e.missing /\ barys = << >>
            /\ skip = e.skip /\ activeTris = e.activeTris /\ atSet = e.atSet
            /\ pc = "sweep"
            /\ hits = {} /\ tested = {} /\ ub = {}
            /\ run = 1 /\ first = << >>

(***************************************************************************)
(* The active set.  std::unordered_set iterates in an order fixed by the   *)
(* history of its inserts and erases; atSet is the set in that order (a    *)
(* new element is linked at the front of the node list).                   *)
(***************************************************************************)
SetInsert(s, t) == IF t \in SeqRange(s) THEN s ELSE <<t>> \o s
SetErase(s, t) == SelectSeq(s, LAMBDA x : x # t)

\* what a read past the end of a vector of triangle indexes can produce:
\* a triangle index, or (NumTris) a value that is none
GarbageTris == 0 .. NumTris

\* Line 111-112: triangle t is a candidate for the point and contains it.
\* For a t that is no triangle the reads are out of range: the answer is gHit.
TriHit(t, qPoint, gHit) ==
    IF t < NumTris
    THEN /\ At(ymns, t) <= qPoint[2]
         /\ qPoint[2] <= At(ymxs, t)
         /\ pointInTri(qPoint, TriVert(uvs, tris, t, 0),
                       TriVert(uvs, tris, t, 1), TriVert(uvs, tris, t, 2))
    ELSE gHit

\* Lines 109-118: the first hit in iteration order, or -1
RECURSIVE FirstHit(_, _, _)
FirstHit(s, qPoint, gHit) ==
    IF s = << >> THEN -1
    ELSE IF TriHit(Head(s), qPoint, gHit) THEN Head(s)
    ELSE FirstHit(Tail(s), qPoint, gHit)

Crash(site) ==
    /\ pc' = "crashed"
    /\ ub' = ub \cup {site}
    /\ UNCHANGED <<inputs, hmInputs, boxes, perms, cursors, outputs, active, hits, tested, run, first>>

(***************************************************************************)
(* Lines 89-103: Activate.                                                 *)
(***************************************************************************)
\* a slip in line 89: the comparison with mx left out
ActivateGuardLoose == mn <= qp

ActivateGuard == mn <= mx /\ mn <= qp

\* line 101: mxSIdxs[-1] is position SIZE_MAX of mxSIdxs, out of range
SentinelValues == { g + 1 : g \in GarbageReals }

Activate ==
    /\ pc = "sweep"
    /\ ActivateGuard
    /\ \/ /\ mnSIdx < NumTris
          /\ LET aTriIdx == At(mnSIdxs, mnSIdx)
                 add == ~At(activeTris, aTriIdx) /\ ~At(skip, aTriIdx)
             IN  /\ activeTris' = IF add THEN [activeTris EXCEPT ![aTriIdx + 1] = TRUE]
                                  ELSE activeTris
                 /\ atSet' = IF add THEN SetInsert(atSet, aTriIdx) ELSE atSet
          /\ mnSIdx' = mnSIdx + 1
          /\ IF mnSIdx' # NumTris
             THEN /\ mn' = At(xmns, At(mnSIdxs, mnSIdx'))
                  /\ ub' = ub
             ELSE /\ mn' \in SentinelValues
                  /\ ub' = ub \cup {"line 101"}
          /\ pc' = pc
          /\ UNCHANGED <<inputs, hmInputs, boxes, perms, qpSIdx, mxSIdx, qpIdx, qp, mx,
                         outputs, skip, hits, tested, run, first>>
       \/ /\ mnSIdx + 1 = NumTris
          /\ Crash("line 101")
       \/ \* the xmin-cursor is past the end: lines 90-98 read out of range
          /\ mnSIdx >= NumTris
          /\ mnSIdx < NumTris + MaxOverrun
          /\ \E aTriIdx \in GarbageTris, gAdd \in BOOLEAN :
               LET add == IF aTriIdx < NumTris
                          THEN ~At(activeTris, aTriIdx) /\ ~At(skip, aTriIdx)
                          ELSE gAdd
               IN  /\ activeTris' = IF add /\ aTriIdx < NumTris
                                    THEN [activeTris EXCEPT ![aTriIdx + 1] = TRUE]
                                    ELSE activeTris
                   /\ atSet' = IF add THEN SetInsert(atSet, aTriIdx) ELSE atSet
          /\ mnSIdx' = mnSIdx + 1
          /\ mn' \in GarbageReals
          /\ ub' = ub \cup {"line 90"}
          /\ pc' = pc
          /\ UNCHANGED <<inputs, hmInputs, boxes, perms, qpSIdx, mxSIdx, qpIdx, qp, mx,
                         outputs, skip, hits, tested, run, first>>
       \/ /\ mnSIdx >= NumTris
          /\ Crash("line 90")

(***************************************************************************)
(* Lines 104-129: Test.                                                    *)
(***************************************************************************)
TestGuard == ~ActivateGuard /\ qp <= mx

\* line 106: qPoints[qpIdx]; qpIdx is a position of uvs
QueryPointRead ==
    IF qpIdx < Len(qPoints) THEN { At(qPoints, qpIdx) } ELSE Points

Test ==
    /\ pc = "sweep"
    /\ TestGuard
    /\ \/ /\ \E qPoint \in QueryPointRead, gHit \in BOOLEAN :
               LET t == FirstHit(atSet, qPoint, gHit)
                   found == t # -1
                   inRange == qpIdx < Len(qPoints)
               IN  /\ out' = IF found /\ inRange
                             THEN [out EXCEPT ![qpIdx + 1] = t] ELSE out
                   /\ hits' = IF found /\ inRange
                              THEN hits \cup {<<qpIdx, t>>} ELSE hits
                   /\ missing' = IF found THEN missing ELSE Append(missing, qpIdx)
                   /\ ub' = ub \cup (IF inRange THEN {} ELSE {"line 106"})
                               \cup (IF found /\ ~inRange THEN {"line 113"} ELSE {})
          /\ tested' = tested \cup {qpIdx}
          /\ qpSIdx' = qpSIdx + 1
          /\ IF qpSIdx' = Len(qpSIdxs)
             THEN /\ pc' = "done"
                  /\ UNCHANGED <<qpIdx, qp>>
             ELSE /\ pc' = pc
                  /\ qpIdx' = At(qpSIdxs, qpSIdx')
                  /\ qp' = At(qpx, qpIdx')
          /\ UNCHANGED <<inputs, hmInputs, boxes, perms, mxSIdx, mnSIdx, mx, mn, barys,
                         active, run, first>>
       \/ /\ qpIdx >= Len(qPoints)
          /\ Crash("line 106")

(***************************************************************************)
(* Lines 130-143: Deactivate.                                              *)
(***************************************************************************)
DeactivateGuard == ~ActivateGuard /\ ~(qp <= mx)

Deactivate ==
    /\ pc = "sweep"
    /\ DeactivateGuard
    /\ \/ /\ mxSIdx < NumTris
          /\ LET aTriIdx == At(mxSIdxs, mxSIdx)
                 del == At(activeTris, aTriIdx) /\ ~At(skip, aTriIdx)
             IN  /\ activeTris' = IF del THEN [activeTris EXCEPT ![aTriIdx + 1] = FALSE]
                                  ELSE activeTris
                 /\ atSet' = IF del THEN SetErase(atSet, aTriIdx) ELSE atSet
          /\ mxSIdx' = mxSIdx + 1
          /\ mx' = IF mxSIdx' # Len(mxSIdxs) THEN At(xmxs, At(mxSIdxs, mxSIdx')) ELSE mx
          /\ UNCHANGED <<pc, ub>>
          /\ UNCHANGED <<inputs, hmInputs, boxes, perms, qpSIdx, mnSIdx, qpIdx, qp, mn,
                         outputs, skip, hits, tested, run, first>>
       \/ \* the xmax-cursor is past the end: lines 132-141 read out of range
          /\ mxSIdx >= NumTris
          /\ mxSIdx < NumTris + MaxOverrun
          /\ \E aTriIdx \in GarbageTris, gDel \in BOOLEAN :
               LET del == IF aTriIdx < NumTris
                          THEN At(activeTris, aTriIdx) /\ ~At(skip, aTriIdx)
                          ELSE gDel
               IN  /\ activeTris' = IF del /\ aTriIdx < NumTris
                                    THEN [activeTris EXCEPT ![aTriIdx + 1] = FALSE]
                                    ELSE activeTris
                   /\ atSet' = IF del THEN SetErase(atSet, aTriIdx) ELSE atSet
          /\ mxSIdx' = mxSIdx + 1
          /\ mx' \in GarbageReals
          /\ ub' = ub \cup {"line 132"}
          /\ pc' = pc
          /\ UNCHANGED <<inputs, hmInputs, boxes, perms, qpSIdx, mnSIdx, qpIdx, qp, mn,
                         outputs, skip, hits, tested, run, first>>
       \/ /\ mxSIdx >= NumTris
          /\ Crash("line 132")

SweepStep == Activate \/ Test \/ Deactivate

(***************************************************************************)
(* closestBruteForceEdge, lines 148-186.  A double is a fraction           *)
(* <<numerator, denominator>>; denominator 0 is NaN (0.0 / 0.0).           *)
(***************************************************************************)
NaN == <<0, 0>>
IsNaN(x) == x[2] = 0
\* std::numeric_limits<double>::max(), above every distance of the model
DblMax == <<1000000, 1>>

\* x < y on doubles: false when either is NaN
Less(x, y) == ~IsNaN(x) /\ ~IsNaN(y) /\ x[1] * y[2] < y[1] * x[2]

\* lines 168-170: the clamped projection parameter; x / 0.0 is +inf, -inf or NaN
Lerp(aa, dd, r2, pt) ==
    LET n == ((pt[1] - aa[1]) * dd[1]) + ((pt[2] - aa[2]) * dd[2])
    IN  IF r2 = 0
        THEN IF n > 0 THEN <<1, 1>> ELSE IF n < 0 THEN <<0, 1>> ELSE NaN
        ELSE IF n < 0 THEN <<0, 1>>
        ELSE IF n > r2 THEN <<1, 1>>
        ELSE <<n, r2>>

\* lines 174-178: the squared length of (d * lerp) + a - pt
EdgeDist2(aa, dd, r2, pt) ==
    LET lerp == Lerp(aa, dd, r2, pt)
        c0 == (dd[1] * lerp[1]) + (aa[1] - pt[1]) * lerp[2]
        c1 == (dd[2] * lerp[1]) + (aa[2] - pt[2]) * lerp[2]
    IN  IF IsNaN(lerp) THEN NaN ELSE <<(c0 * c0) + (c1 * c1), lerp[2] * lerp[2]>>

RECURSIVE ClosestFrom(_, _, _, _, _, _, _)
ClosestFrom(a, d, dr2, pt, i, minIdx, minVal) ==
    IF i = Len(a) THEN minIdx
    ELSE LET l2 == EdgeDist2(At(a, i), At(d, i), At(dr2, i), pt)
         IN  IF Less(l2, minVal)
             THEN ClosestFrom(a, d, dr2, pt, i + 1, i, l2)
             ELSE ClosestFrom(a, d, dr2, pt, i + 1, minIdx, minVal)

closestBruteForceEdge(a, d, dr2, pt) == ClosestFrom(a, d, dr2, pt, 0, 0, DblMax)

(***************************************************************************)
(* handleMissing, lines 190-225, called with sweep's uvs, missing and out  *)
(* (as triIdxs) and the border lists b and b2t.                            *)
(***************************************************************************)
\* lines 209-217
Starts(b) == [k \in 1 .. Len(b) |-> At(uvs, b[k][1])]
BDiff(b) ==
    [k \in 1 .. Len(b) |->
        <<At(uvs, b[k][2])[1] - At(uvs, b[k][1])[1],
          At(uvs, b[k][2])[2] - At(uvs, b[k][1])[2]>>]
\* lines 213-214: delta = diff[1] - diff[0]; delta * delta
EdgeLen2(diff) == (diff[2] - diff[1]) * (diff[2] - diff[1])
BLens2(b) == [k \in 1 .. Len(b) |-> EdgeLen2(BDiff(b)[k])]

\* lines 220-221: the edge chosen for the missing position mIdx
ClosestEdgeOf(b, mIdx) ==
    closestBruteForceEdge(Starts(b), BDiff(b), BLens2(b), At(uvs, mIdx))

\* line 222: borderToTri[closestEdge]; g is what an out-of-range read gives
TriOfEdge(b2t, closestEdge, g) ==
    IF closestEdge < Len(b2t) THEN At(b2t, closestEdge) ELSE g

\* a slip in line 223: position and value exchanged, triIdxs[triIdx] = mIdx
WriteTriSwapped(triIdxs, mIdx, triIdx) ==
    IF triIdx < Len(triIdxs) THEN [triIdxs EXCEPT ![triIdx + 1] = mIdx] ELSE triIdxs

\* line 223: triIdxs[mIdx] = triIdx
WriteTri(triIdxs, mIdx, triIdx) ==
    IF mIdx < Len(triIdxs) THEN [triIdxs EXCEPT ![mIdx + 1] = triIdx] ELSE triIdxs

\* lines 219-224: the loop over missing, from position k on
RECURSIVE ResolveFrom(_, _, _, _, _)
ResolveFrom(b, b2t, triIdxs, k, g) ==
    IF k = Len(missing) THEN triIdxs
    ELSE LET mIdx == At(missing, k)
         IN  ResolveFrom(b, b2t,
                         WriteTri(triIdxs, mIdx,
                                  TriOfEdge(b2t, ClosestEdgeOf(b, mIdx), g)),
                         k + 1, g)

\* the out-of-range accesses of a call
HandleMissingUB(b, b2t) ==
    (IF \E k \in Idx(missing) : ClosestEdgeOf(b, At(missing, k)) >= Len(b2t)
     THEN {"line 222"} ELSE {})
    \cup
    (IF \E k \in Idx(missing) : At(missing, k) >= Len(out)
     THEN {"line 223"} ELSE {})

\* the effect of a call with the border lists b and b2t
HandleMissingBody(b, b2t) ==
    /\ \/ /\ \E g \in GarbageTris : out' = ResolveFrom(b, b2t, out, 0, g)
          /\ pc' = "resolved"
       \/ /\ HandleMissingUB(b, b2t) # {}
          /\ pc' = "crashed"
          /\ out' = out
    /\ ub' = ub \cup HandleMissingUB(b, b2t)
    /\ UNCHANGED <<inputs, boxes, perms, cursors, missing, barys, active,
                   hits, tested, run, first>>

\* the call that follows sweep; the caller supplies the border lists
handleMissing ==
    /\ pc = "done"
    /\ \E c \in BorderConfigs(tris) :
         /\ borders' = c.borders
         /\ borderToTri' = c.borderToTri
         /\ HandleMissingBody(c.borders, c.borderToTri)

(***************************************************************************)
(* A second call of sweep with the same arguments and fresh outputs.       *)
(***************************************************************************)
Rerun ==
    /\ pc = "done"
    /\ run = 1
    /\ LET e == SweepEntry(qPoints, uvs, tris)
       IN  /\ qpSIdx' = e.qpSIdx /\ mxSIdx' = e.mxSIdx /\ mnSIdx' = e.mnSIdx
           /\ qpIdx' = e.qpIdx /\ qp' = e.qp /\ mx' = e.mx /\ mn' = e.mn
           /\ out' = e.out /\ missing' = e.missing
           /\ skip' = e.skip /\ activeTris' = e.activeTris /\ atSet' = e.atSet
    /\ pc' = "sweep"
    /\ run' = 2
    /\ first' = [out |-> out, missing |-> missing]
    /\ hits' = {} /\ tested' = {}
    /\ UNCHANGED <<inputs, hmInputs, boxes, perms, barys, ub>>

Next == Activate \/ Test \/ Deactivate \/ handleMissing

Spec == Init /\ [][Next]_vars

\* the loop runs on without waiting for anything
FairSpec == Spec /\ WF_vars(SweepStep)

\* sweep called twice on the same inputs
NextTwice == Activate \/ Test \/ Deactivate \/ Rerun
TwiceSpec == Init /\ [][NextTwice]_vars

(***************************************************************************)
(* handleMissing on its own: the arguments are any border list of a mesh,  *)
(* any list of at most MaxMissing positions of uvs, and any triIdxs of     *)
(* 1..MaxQ entries.                                                        *)
(***************************************************************************)
MaxMissing == 2

MissingLists(u) ==
    UNION { [1 .. n -> { i \in Idx(u) : i <= MaxQ }] : n \in 0 .. MaxMissing }
TriIdxLists(t3) ==
    UNION { [1 .. n -> 0 .. (Len(t3) \div 3)] : n \in 1 .. MaxQ }

InitHM ==
    \E mesh \in Meshes :
      \E c \in BorderConfigs(mesh.tris), m \in MissingLists(mesh.uvs),
         t \in TriIdxLists(mesh.tris) :
        LET e == SweepEntry(<< >>, mesh.uvs, mesh.tris)
        IN  /\ qPoints = << >> /\ uvs = mesh.uvs /\ tris = mesh.tris
            /\ borders = c.borders /\ borderToTri = c.borderToTri
            /\ xmns = e.xmns /\ xmxs = e.xmxs /\ ymns = e.ymns /\ ymxs = e.ymxs
            /\ qpx = e.qpx /\ qpSIdxs = e.qpSIdxs
            /\ mxSIdxs = e.mxSIdxs /\ mnSIdxs = e.mnSIdxs
            /\ qpSIdx = e.qpSIdx /\ mxSIdx = e.mxSIdx /\ mnSIdx = e.mnSIdx
            /\ qpIdx = e.qpIdx /\ qp = e.qp /\ mx = e.mx /\ mn = e.mn
            /\ out = t /\ missing = m /\ barys = << >>
            /\ skip = e.skip /\ activeTris = e.activeTris /\ atSet = e.atSet
            /\ pc = "done"
            /\ hits = {} /\ tested = {} /\ ub = {}
            /\ run = 1 /\ first = << >>

handleMissingCall ==
    /\ pc = "done"
    /\ HandleMissingBody(borders, borderToTri)
    /\ UNCHANGED hmInputs

HMSpec == InitHM /\ [][handleMissingCall]_vars

(***************************************************************************)
(* argsort on its own: the argument is any vector of at most MaxLen keys   *)
(* out of 0..MaxKey (held in qpx), the result is held in qpSIdxs.          *)
(***************************************************************************)
MaxLen == 4
MaxKey == 2

KeyLists == UNION { [1 .. n -> 0 .. MaxKey] : n \in 0 .. MaxLen }

InitArgsort ==
    /\ qpx \in KeyLists
    /\ qpSIdxs = << >>
    /\ pc = "argsort"
    /\ qPoints = << >> /\ uvs = << >> /\ tris = << >>
    /\ borders = << >> /\ borderToTri = << >>
    /\ xmns = << >> /\ xmxs = << >> /\ ymns = << >> /\ ymxs = << >>
    /\ mxSIdxs = << >> /\ mnSIdxs = << >>
    /\ qpSIdx = 0 /\ mxSIdx = 0 /\ mnSIdx = 0
    /\ qpIdx = 0 /\ qp = 0 /\ mx = 0 /\ mn = 0
    /\ out = << >> /\ missing = << >> /\ barys = << >>
    /\ skip = << >> /\ activeTris = << >> /\ atSet = << >>
    /\ hits = {} /\ tested = {} /\ ub = {}
    /\ run = 1 /\ first = << >>

argsortCall ==
    /\ pc = "argsort"
    /\ qpSIdxs' = argsort(qpx)
    /\ pc' = "sorted"
    /\ UNCHANGED <<inputs, hmInputs, boxes, qpx, mxSIdxs, mnSIdxs, cursors,
                   outputs, active, ghost>>

ArgsortSpec == InitArgsort /\ [][argsortCall]_vars

\* the main loop of sweep alone, from every entry state
SweepSpec == Init /\ [][SweepStep]_vars

(***************************************************************************)
(* Vocabulary of the properties.                                           *)
(***************************************************************************)
QIdx == Idx(qPoints)
TriIdx == 0 .. NumTris - 1
Resolved(i) == \E h \in hits : h[1] = i
MissingCount(i) == Cardinality({ k \in 1 .. Len(missing) : missing[k] = i })
InMissing(i) == i \in SeqRange(missing)

InTri(p, t) ==
    pointInTri(p, TriVert(uvs, tris, t, 0), TriVert(uvs, tris, t, 1),
               TriVert(uvs, tris, t, 2))
StrictlyInTri(p, t) ==
    LET d1 == Cross(TriVert(uvs, tris, t, 0), TriVert(uvs, tris, t, 1), p)
        d2 == Cross(TriVert(uvs, tris, t, 1), TriVert(uvs, tris, t, 2), p)
        d3 == Cross(TriVert(uvs, tris, t, 2), TriVert(uvs, tris, t, 0), p)
    IN  (d1 > 0 /\ d2 > 0 /\ d3 > 0) \/ (d1 < 0 /\ d2 < 0 /\ d3 < 0)
\* strictly inside triangle t and in no other triangle
InteriorToOnly(p, t) ==
    StrictlyInTri(p, t) /\ \A s \in TriIdx : s # t => ~InTri(p, s)

\* the vertices the triangles use, and their convex hull (the union of the
\* proper triangles spanned by three of them)
TriVerts == { At(uvs, tris[k]) : k \in 1 .. Len(tris) }
InHull(p) ==
    \E a \in TriVerts, b \in TriVerts, c \in TriVerts :
        Cross(a, b, c) # 0 /\ pointInTri(p, a, b, c)

\* a run whose reads of qPoints and writes of out and triIdxs were all in
\* range (the read of line 101 happens in every run that has a triangle)
InRangeRun == ub \subseteq {"line 101"}

\* C1: when sweep has returned (no read of qPoints or write of out was out of
\* range), every query position is either resolved (a Test hit wrote out[i],
\* and i is not in missing) or listed in missing exactly once (and out[i] was
\* not written); missing lists nothing else.
C1_AccountedOnce ==
    (pc = "done" /\ InRangeRun) =>
        /\ \A i \in QIdx :
              \/ Resolved(i) /\ MissingCount(i) = 0
              \/ ~Resolved(i) /\ MissingCount(i) = 1
        /\ \A k \in 1 .. Len(missing) :
              missing[k] \in tested /\ ~Resolved(missing[k])

\* C2: when sweep has returned (all accesses in range), a query point
\* strictly inside exactly one triangle t has out[i] = t and is not in
\* missing.
C2_InteriorResolved ==
    (pc = "done" /\ InRangeRun) =>
        \A i \in QIdx : \A t \in TriIdx :
            InteriorToOnly(At(qPoints, i), t) =>
                At(out, i) = t /\ ~InMissing(i)

\* C3: the sweep terminates, also when a query x lies to the right of every
\* xmax: once the xmin- and the xmax-cursor are both exhausted, the loop
\* takes the one action that leads to its break, Test, until the query
\* cursor is exhausted too.
C3_SweepTerminates ==
    (pc = "sweep" /\ mnSIdx >= NumTris /\ mxSIdx >= NumTris) => TestGuard

\* C4: a query point outside the convex hull of the triangulation is in
\* missing after the sweep, and handleMissing (called with a border that has
\* edges) then gives it a triangle index taken from borderToTri.
C4_OutsideReassigned ==
    (pc = "resolved" /\ borders # << >>) =>
        \A i \in QIdx :
            ~InHull(At(qPoints, i)) =>
                InMissing(i) /\ At(out, i) \in SeqRange(borderToTri)

\* C5: when sweep has returned (all accesses in range), barys holds one
\* entry per resolved query point and none for a missing one.
C5_BarysForResolved ==
    (pc = "done" /\ InRangeRun) => Len(barys) = Cardinality({ i \in QIdx : Resolved(i) })

\* The squared distance from p to its clamped projection on the edge from a
\* in direction d, with the edge's true squared length (a zero-length edge
\* is the point a).
TrueDist2(p, a, d) ==
    LET r2 == (d[1] * d[1]) + (d[2] * d[2])
        n == ((p[1] - a[1]) * d[1]) + ((p[2] - a[2]) * d[2])
        lerp == IF r2 = 0 \/ n < 0 THEN <<0, 1>>
                ELSE IF n > r2 THEN <<1, 1>> ELSE <<n, r2>>
        c0 == (d[1] * lerp[1]) + (a[1] - p[1]) * lerp[2]
        c1 == (d[2] * lerp[1]) + (a[2] - p[2]) * lerp[2]
    IN  <<(c0 * c0) + (c1 * c1), lerp[2] * lerp[2]>>
EdgeDist(p, e) == TrueDist2(p, Starts(borders)[e + 1], BDiff(borders)[e + 1])
NearestEdge(p, e) ==
    \A f \in Idx(borders) : ~Less(EdgeDist(p, f), EdgeDist(p, e))

\* C6: handleMissing gives a missing query point the triangle of a border
\* edge nearest to the query point's own coordinates (clamped projection,
\* true squared edge length); stated for the runs whose reads of qPoints and
\* writes of out and triIdxs were all in range.
C6_NearestEdge ==
    (pc = "resolved" /\ borders # << >> /\ InRangeRun) =>
        \A i \in QIdx :
            (InMissing(i) /\ ~Resolved(i)) =>
                \E e \in Idx(borders) :
                    /\ At(out, i) = At(borderToTri, e)
                    /\ NearestEdge(At(qPoints, i), e)

\* C7: for every position listed in missing, handleMissing writes the
\* triangle of some border edge e, 0 <= e < number of border edges, whatever
\* the border list (empty, or with zero-length edges).
C7_BorderTriangle ==
    pc = "resolved" =>
        \A k \in Idx(missing) :
            At(missing, k) < Len(out) =>
                \E e \in Idx(borders) :
                    e < Len(borderToTri)
                    /\ At(out, At(missing, k)) = At(borderToTri, e)

\* C8: a second sweep on the same inputs returns the same out and missing
\* (stated for the lists with one query point per vertex, where every read
\* of qPoints is in range).
C8_SameResult ==
    (run = 2 /\ pc = "done" /\ Len(qPoints) = Len(uvs)) =>
        out = first.out /\ missing = first.missing

\* C9: handleMissing changes triIdxs only at the positions listed in missing,
\* and leaves uvs, borders, missing, borderToTri and barys as they were
\* (for a missing list whose entries are positions of triIdxs, so that line
\* 223 writes inside the vector).
C9_HandleMissingFrame ==
    [][ (pc = "done" /\ pc' = "resolved"
         /\ \A k \in Idx(missing) : At(missing, k) < Len(out)) =>
          /\ Len(out') = Len(out)
          /\ \A i \in Idx(out) : ~InMissing(i) => At(out', i) = At(out, i)
          /\ UNCHANGED <<uvs, borders, missing, borderToTri, barys>> ]_vars

\* handleMissing has returned; it rewrote a listed position and passed over
\* one that is not listed
C9_Witness ==
    /\ pc = "resolved"
    /\ borders # << >>
    /\ missing # << >>
    /\ \A k \in Idx(missing) : At(missing, k) < Len(out)
    /\ \E i \in Idx(out) : InMissing(i) /\ At(out, i) \in SeqRange(borderToTri)
    /\ \E i \in Idx(out) : ~InMissing(i) /\ At(out, i) \notin SeqRange(borderToTri)

\* C10: out is indexed by the original query position: when a Test hit wrote
\* out[i] = t, t is a triangle whose y-range holds qPoints[i] and that
\* contains qPoints[i].
C10_HitsByPosition ==
    \A h \in hits :
        /\ h[2] \in TriIdx
        /\ At(ymns, h[2]) <= At(qPoints, h[1])[2]
        /\ At(qPoints, h[1])[2] <= At(ymxs, h[2])
        /\ InTri(At(qPoints, h[1]), h[2])

\* p lists every position 0..n-1 exactly once
IsPermutation(p, n) ==
    /\ Len(p) = n
    /\ \A i \in 0 .. n - 1 : Cardinality({ k \in 1 .. Len(p) : p[k] = i }) = 1

\* C11: argsort returns a sequence of the length of its argument that lists
\* every position 0..n-1 exactly once, along which the keys do not decrease,
\* and in which positions of equal key keep their original order.
C11_ArgsortContract ==
    pc = "sorted" =>
        /\ IsPermutation(qpSIdxs, Len(qpx))
        /\ \A j, k \in 1 .. Len(qpSIdxs) :
              j < k =>
                /\ At(qpx, qpSIdxs[j]) <= At(qpx, qpSIdxs[k])
                /\ At(qpx, qpSIdxs[j]) = At(qpx, qpSIdxs[k])
                      => qpSIdxs[j] < qpSIdxs[k]

\* argsort has returned for keys that hold a descending pair and a tie
C11_Witness ==
    /\ pc = "sorted"
    /\ Len(qpSIdxs) = Len(qpx)
    /\ \E i, j \in 1 .. Len(qpx) : i < j /\ qpx[i] > qpx[j]
    /\ \E i, j \in 1 .. Len(qpx) : i < j /\ qpx[i] = qpx[j]

\* C12: the query cursor walks the query points by their own x: the
\* permutation the sweep consumes lists the positions 0..Q-1 of qPoints, and
\* at a Test the current query x, qp, is the x of the query point tested
\* (stated for the query lists as long as uvs, whose content differs from it).
C12_QueryCursor ==
    (pc = "sweep" /\ TestGuard /\ Len(qPoints) = Len(uvs)) =>
        /\ IsPermutation(qpSIdxs, Len(qPoints))
        /\ qpIdx \in QIdx
        /\ qp = At(qPoints, qpIdx)[1]

\* the triangles whose x-interval holds x
Straddling(x) == { t \in TriIdx : At(xmns, t) <= x /\ x <= At(xmxs, t) }

\* C13: at every Test the active set is exactly the set of triangles whose
\* x-interval holds the current query x.
C13_ActiveExact ==
    (pc = "sweep" /\ TestGuard) => SeqRange(atSet) = Straddling(qp)

\* C14: once the xmin-cursor is exhausted, mn is above every xmax, so the
\* Activate branch is not taken again.
C14_Sentinel ==
    (pc = "sweep" /\ mnSIdx >= NumTris) =>
        /\ \A t \in TriIdx : mn > At(xmxs, t)
        /\ ~ActivateGuard

\* the smallest x of the query points
MinQueryX ==
    CHOOSE x \in { q[1] : q \in SeqRange(qPoints) } :
        \A q \in SeqRange(qPoints) : x <= q[1]

\* C15: a triangle is flagged skip exactly when its xmax is below the
\* smallest query x; a skipped triangle is never in the active set, and no
\* triangle that contains a query point is skipped.
C15_SkipFlag ==
    pc \in {"sweep", "done"} =>
        \A t \in TriIdx :
            /\ At(skip, t) <=> At(xmxs, t) < MinQueryX
            /\ At(skip, t) => t \notin SeqRange(atSet)
            /\ At(skip, t) => \A i \in QIdx : ~InTri(At(qPoints, i), t)

\* C17: each branch reads its permutation inside it: Deactivate reads
\* mxSIdxs[mxSIdx] with mxSIdx < numTris, Activate reads mnSIdxs[mnSIdx]
\* with mnSIdx < numTris, Test reads qPoints[qpIdx] with qpIdx < Q (stated
\* for the states that no out-of-range access has led to).
C17_CursorsInBounds ==
    (pc = "sweep" /\ ub = {}) =>
        /\ ActivateGuard => mnSIdx < NumTris
        /\ TestGuard => qpIdx < Len(qPoints)
        /\ DeactivateGuard => mxSIdx < NumTris

\* C16: an iteration of the main loop that runs to its end takes Activate
\* when mn <= mx and mn <= qp, else Test when qp <= mx, else Deactivate, and
\* moves the cursor of that action by one position and no other cursor.
C16_OneActionOneCursor ==
    [][ (pc = "sweep" /\ pc' # "crashed") =>
          IF mn <= mx /\ mn <= qp
          THEN mnSIdx' = mnSIdx + 1 /\ qpSIdx' = qpSIdx /\ mxSIdx' = mxSIdx
          ELSE IF qp <= mx
          THEN qpSIdx' = qpSIdx + 1 /\ mnSIdx' = mnSIdx /\ mxSIdx' = mxSIdx
          ELSE mxSIdx' = mxSIdx + 1 /\ mnSIdx' = mnSIdx /\ qpSIdx' = qpSIdx ]_vars

\* each of the three actions has run, the last of them a Deactivate
C16_Witness ==
    /\ pc = "sweep"
    /\ mnSIdx > 0 /\ qpSIdx > 0 /\ mxSIdx > 0
    /\ mxSIdx <= NumTris

\* C18: handleMissing after sweep leaves every entry that a Test hit wrote
\* as the hit wrote it (stated for the runs with all accesses in range and
\* a border list that has edges).
C18_ResolvedKept ==
    (pc = "resolved" /\ InRangeRun /\ borders # << >>) =>
        \A h \in hits : At(out, h[1]) = h[2]

\* the position of t in the permutation p
PosIn(p, t) == CHOOSE k \in Idx(p) : At(p, k) = t

\* C19: a triangle enters the active set only in the Activate step in which
\* the xmin-cursor passes it and leaves it only in the Deactivate step in
\* which the xmax-cursor passes it (so at most once each), the xmax-cursor
\* passes a triangle only after the xmin-cursor has, and activeTris[t] is
\* true exactly for the members t of atSet.
C19_OnceInOnceOut ==
    [][ (pc = "sweep" /\ pc' # "crashed") =>
          /\ \A t \in SeqRange(atSet') \ SeqRange(atSet) :
                mnSIdx < NumTris /\ At(mnSIdxs, mnSIdx) = t /\ mnSIdx' = mnSIdx + 1
          /\ \A t \in SeqRange(atSet) \ SeqRange(atSet') :
                mxSIdx < NumTris /\ At(mxSIdxs, mxSIdx) = t /\ mxSIdx' = mxSIdx + 1
          /\ (mxSIdx' = mxSIdx + 1 /\ mxSIdx < NumTris) =>
                PosIn(mnSIdxs, At(mxSIdxs, mxSIdx)) < mnSIdx
          /\ SeqRange(atSet') = { t \in TriIdx : At(activeTris', t) } ]_vars

====
